---------------------------- MODULE Spec2Model ----------------------------
(***************************************************************************)
(* Model of src/app.py: the blog scraper's URL helpers, banner resolver,   *)
(* markup sanitizer (clean_article), placeholder assigner                  *)
(* (apply_placeholders), the extraction pipeline (extract_blog_content)    *)
(* and the /scrape-blog request handler (scrape_blog).                     *)
(*                                                                         *)
(* Python strings are sequences of one-character strings, so that strip,   *)
(* startswith, split and the regular expressions are computed and not      *)
(* assumed.  A DOM node is a record [name, attrs, contents, text]; a text  *)
(* node has name "#text".  attrs is a function from attribute names to     *)
(* values (the "class" attribute is a sequence of class names, as in bs4). *)
(*                                                                         *)
(* The characters of the strings are those of Latin-1 (U+0001..U+00FF),    *)
(* the ones a string of a module can hold: the whitespace set, the case    *)
(* table and the URL parser below are those of Python for these.           *)
(***************************************************************************)
EXTENDS Integers, Sequences, FiniteSets, TLC

VARIABLES
    pc,             \* position of the operation being run
    request,        \* the request given to scrape_blog (body and what the fetch will do)
    soup,           \* the parsed document, or the input tree of a single component
    article,        \* the article root being rewritten in place
    prev,           \* the tree before the last sanitizer run
    banner_url,     \* result of find_banner_url / banner argument of apply_placeholders
    image_url_map,  \* filename -> original URL
    images_list,    \* ordered original URLs
    image_names,    \* ordered filenames
    title,          \* resolved title
    steps,          \* the steps of scrape_blog that have run, in order
    response        \* the response of scrape_blog

vars == << pc, request, soup, article, prev, banner_url, image_url_map,
           images_list, image_names, title, steps, response >>

(***************************************************************************)
(* Python None, for values that are otherwise strings.                     *)
(***************************************************************************)
None == << "None" >>

\* The element of a one-element set.  A local of the source that is read more
\* than once is bound as  Value({ body : x \in { expr } }),  so that expr is
\* computed once, as the assignment x = expr does.
Value(S) == CHOOSE v \in S : TRUE

(***************************************************************************)
(* String helpers (str methods used by the source).                        *)
(***************************************************************************)
\* the characters str.strip(), str.split() and the regular expressions' \s take for
\* whitespace (str.isspace), among the characters of Latin-1, which is the alphabet of
\* the model's strings: U+0009..U+000D, U+001C..U+001F, U+0020, U+0085, U+00A0
Whitespace ==
    { "\t", "\n", "", "\f", "\r", "", "", "", "", " ", "", " " }

RECURSIVE LStripChars(_, _)
LStripChars(s, chars) ==
    IF s # << >> /\ Head(s) \in chars THEN LStripChars(Tail(s), chars) ELSE s

RECURSIVE RStripChars(_, _)
RStripChars(s, chars) ==
    IF s # << >> /\ s[Len(s)] \in chars
    THEN RStripChars(SubSeq(s, 1, Len(s) - 1), chars)
    ELSE s

\* str.strip(chars)
StripChars(s, chars) == RStripChars(LStripChars(s, chars), chars)

\* str.strip()
Strip(s) == StripChars(s, Whitespace)

\* str.startswith(p)
StartsWith(s, p) == Len(s) >= Len(p) /\ SubSeq(s, 1, Len(p)) = p

\* s[i:] with a 1-based i
From(s, i) == SubSeq(s, i, Len(s))

\* s up to the 1-based index i, all of s when i = 0 (nothing was found)
UpTo(s, i) == IF i = 0 THEN s ELSE SubSeq(s, 1, i - 1)

\* 1-based index of the first position >= i where p occurs in s, 0 when none (str.find)
RECURSIVE Find(_, _, _)
Find(s, p, i) ==
    IF i + Len(p) - 1 > Len(s) THEN 0
    ELSE IF SubSeq(s, i, i + Len(p) - 1) = p THEN i
    ELSE Find(s, p, i + 1)

\* 1-based index of the first position >= i holding a character of chars, 0 when none
RECURSIVE FindAny(_, _, _)
FindAny(s, chars, i) ==
    IF i > Len(s) THEN 0
    ELSE IF s[i] \in chars THEN i
    ELSE FindAny(s, chars, i + 1)

\* 1-based index of the last occurrence of character c in s, 0 when none (str.rfind + 1)
RECURSIVE RFind(_, _)
RFind(s, c) ==
    IF s = << >> THEN 0
    ELSE IF s[Len(s)] = c THEN Len(s)
    ELSE RFind(SubSeq(s, 1, Len(s) - 1), c)

\* the letters of Latin-1 that str.lower() changes (A-Z, U+00C0..U+00D6,
\* U+00D8..U+00DE), each with the letter it becomes; the first 26 are ASCII
UpperCase ==
    << "A", "B", "C", "D", "E", "F", "G", "H", "I", "J", "K", "L", "M", "N", "O", "P",
       "Q", "R", "S", "T", "U", "V", "W", "X", "Y", "Z", "À", "Á", "Â", "Ã", "Ä", "Å",
       "Æ", "Ç", "È", "É", "Ê", "Ë", "Ì", "Í", "Î", "Ï", "Ð", "Ñ", "Ò", "Ó", "Ô", "Õ",
       "Ö", "Ø", "Ù", "Ú", "Û", "Ü", "Ý", "Þ" >>
LowerCase ==
    << "a", "b", "c", "d", "e", "f", "g", "h", "i", "j", "k", "l", "m", "n", "o", "p",
       "q", "r", "s", "t", "u", "v", "w", "x", "y", "z", "à", "á", "â", "ã", "ä", "å",
       "æ", "ç", "è", "é", "ê", "ë", "ì", "í", "î", "ï", "ð", "ñ", "ò", "ó", "ô", "õ",
       "ö", "ø", "ù", "ú", "û", "ü", "ý", "þ" >>

LowerChar(c) ==
    IF \E k \in DOMAIN UpperCase : UpperCase[k] = c
    THEN LowerCase[CHOOSE k \in DOMAIN UpperCase : UpperCase[k] = c]
    ELSE c

\* str.lower()
Lower(s) == [ i \in 1..Len(s) |-> LowerChar(s[i]) ]

\* the Python string as one TLA+ string
RECURSIVE Str(_)
Str(s) == IF s = << >> THEN "" ELSE Head(s) \o Str(Tail(s))

DIGITS == << "0", "1", "2", "3", "4", "5", "6", "7", "8", "9" >>

\* str(n) as a sequence of characters
RECURSIVE Digits(_)
Digits(n) ==
    IF n < 10 THEN << DIGITS[n + 1] >> ELSE Digits(n \div 10) \o << DIGITS[(n % 10) + 1] >>

(***************************************************************************)
(* Literals of the source.                                                 *)
(***************************************************************************)
HTTP    == << "h", "t", "t", "p", ":", "/", "/" >>
HTTPS   == << "h", "t", "t", "p", "s", ":", "/", "/" >>
HTTPS_  == << "h", "t", "t", "p", "s", ":" >>
ABS_PREFIXES == { HTTP, HTTPS }

(***************************************************************************)
(* _normalize_url                                                          *)
(***************************************************************************)
\* lines 30-31: protocol-relative -> https:
WithScheme(s) == IF StartsWith(s, << "/", "/" >>) THEN HTTPS_ \o s ELSE s

\* line 32
AbsoluteOrNone(t) == IF \E p \in ABS_PREFIXES : StartsWith(t, p) THEN t ELSE None

_normalize_url(u) ==
    IF u = None \/ u = << >> THEN None
    ELSE Value({ IF s = << >> THEN None
                 ELSE Value({ AbsoluteOrNone(t) : t \in { WithScheme(s) } }) :
                 s \in { Strip(u) } })

(***************************************************************************)
(* Attribute dictionaries (tag.attrs).                                     *)
(***************************************************************************)
NoAttrs == << >>

Has(attrs, k) == k \in DOMAIN attrs

\* tag.get(k)
Get(attrs, k) == IF k \in DOMAIN attrs THEN attrs[k] ELSE None

\* tag[k] = v
SetAttr(attrs, k, v) == [ x \in (DOMAIN attrs) \cup { k } |-> IF x = k THEN v ELSE attrs[x] ]

\* del tag.attrs[k]
DelAttr(attrs, k) ==
    IF (DOMAIN attrs) \ { k } = { } THEN NoAttrs
    ELSE [ x \in (DOMAIN attrs) \ { k } |-> attrs[x] ]

\* Python truthiness of an optional string
Truthy(v) == v # None /\ v # << >>

\* a or b
Or(a, b) == IF Truthy(a) THEN a ELSE b

(***************************************************************************)
(* _get_img_src                                                            *)
(***************************************************************************)
\* srcset.split(",")[0].split()[0]; None when that raises IndexError
FirstSrcsetEntry(srcset) ==
    Value({ IF body = << >> THEN None ELSE UpTo(body, FindAny(body, Whitespace, 1)) :
            body \in { LStripChars(UpTo(srcset, Find(srcset, << "," >>, 1)), Whitespace) } })

\* lines 36-42
FirstSrcAttr(a) ==
    Or(Get(a, "src"), Or(Get(a, "data-src"), Or(Get(a, "data-lazy-src"),
       Or(Get(a, "data-original"), Get(a, "data-background")))))

_get_img_src(tag) ==
    Value({ Value({ _normalize_url(s2) :
                    s2 \in { IF ~Truthy(src) /\ Truthy(Get(tag.attrs, "srcset"))
                             THEN FirstSrcsetEntry(tag.attrs["srcset"])
                             ELSE src } }) :
            src \in { FirstSrcAttr(tag.attrs) } })

(***************************************************************************)
(* _guess_ext_from_url                                                     *)
(***************************************************************************)
\* the value of a call that raised an exception
Raises == << "raises" >>

\* urllib.parse._WHATWG_C0_CONTROL_OR_SPACE: U+0001..U+0020 (U+0000, which is
\* in it too, cannot be written in a module)
WHATWG_C0_CONTROL_OR_SPACE ==
    { "", "", "", "", "", "", "", "", "\t", "\n", "", "\f", "\r", "",
      "", "", "", "", "", "", "", "", "", "", "", "", "", "", "", "",
      "", " " }

\* urllib.parse._UNSAFE_URL_BYTES_TO_REMOVE
UNSAFE_URL_BYTES_TO_REMOVE == { "\t", "\r", "\n" }

\* the characters c with c.isascii() and c.isalpha()
AsciiLetters == { UpperCase[k] : k \in 1..26 } \cup { LowerCase[k] : k \in 1..26 }

\* urllib.parse.scheme_chars
scheme_chars == AsciiLetters \cup { DIGITS[k] : k \in DOMAIN DIGITS } \cup { "+", "-", "." }

\* urllib.parse.uses_params
uses_params ==
    { << >>, << "f", "t", "p" >>, << "h", "d", "l" >>,
      << "p", "r", "o", "s", "p", "e", "r", "o" >>, << "h", "t", "t", "p" >>,
      << "i", "m", "a", "p" >>, << "h", "t", "t", "p", "s" >>,
      << "s", "h", "t", "t", "p" >>, << "r", "t", "s", "p" >>,
      << "r", "t", "s", "p", "s" >>, << "r", "t", "s", "p", "u" >>, << "s", "i", "p" >>,
      << "s", "i", "p", "s" >>, << "m", "m", "s" >>, << "s", "f", "t", "p" >>,
      << "t", "e", "l" >> }

\* ipaddress._BaseV6._HEX_DIGITS
HEX_DIGITS ==
    { DIGITS[k] : k \in DOMAIN DIGITS }
    \cup { "a", "b", "c", "d", "e", "f", "A", "B", "C", "D", "E", "F" }

\* c in s
In(c, s) == \E k \in DOMAIN s : s[k] = c

\* str.split(sep) for a one-character sep
RECURSIVE Split(_, _)
Split(s, sep) ==
    Value({ IF i = 0 THEN << s >> ELSE << SubSeq(s, 1, i - 1) >> \o Split(From(s, i + 1), sep) :
            i \in { Find(s, << sep >>, 1) } })

\* int(o, 10) for a string of ASCII digits
RECURSIVE Number(_)
Number(o) ==
    IF o = << >> THEN 0
    ELSE 10 * Number(SubSeq(o, 1, Len(o) - 1))
         + (CHOOSE d \in 0..9 : DIGITS[d + 1] = o[Len(o)])

\* ipaddress.IPv4Address._parse_octet does not raise
IsOctet(o) ==
    /\ o # << >>
    /\ \A k \in DOMAIN o : \E d \in DOMAIN DIGITS : DIGITS[d] = o[k]
    /\ Len(o) <= 3
    /\ ~(o # << "0" >> /\ o[1] = "0")
    /\ Number(o) <= 255

\* ipaddress.IPv4Address(s) does not raise
IsIPv4(s) ==
    /\ s # << >>
    /\ ~In("/", s)
    /\ \E octets \in { Split(s, ".") } :
           Len(octets) = 4 /\ \A k \in DOMAIN octets : IsOctet(octets[k])

\* ipaddress.IPv6Address._parse_hextet does not raise
IsHextet(h) == h # << >> /\ Len(h) <= 4 /\ \A k \in DOMAIN h : h[k] \in HEX_DIGITS

\* IPv6Address._ip_int_from_string from "An IPv6 address can't have more than 8
\* colons" on: at most one "::", which covers an empty first or last part, and
\* every part that is read is a hextet
IPv6PartsOk(parts) ==
    /\ Len(parts) <= 9
    /\ \E skips \in { { i \in 2..(Len(parts) - 1) : parts[i] = << >> } } :
           IF skips = { }
           THEN Len(parts) = 8 /\ \A i \in DOMAIN parts : IsHextet(parts[i])
           ELSE /\ Cardinality(skips) = 1
                /\ \E s \in skips :
                   \E hi \in { s - 1 - (IF parts[1] = << >> THEN 1 ELSE 0) },
                      lo \in { Len(parts) - s - (IF parts[Len(parts)] = << >> THEN 1 ELSE 0) } :
                       /\ parts[1] = << >> => hi = 0
                       /\ parts[Len(parts)] = << >> => lo = 0
                       /\ 8 - (hi + lo) >= 1
                       /\ \A i \in 1..hi : IsHextet(parts[i])
                       /\ \A i \in (Len(parts) - lo + 1)..Len(parts) : IsHextet(parts[i])

\* IPv6Address._ip_int_from_string(addr) does not raise; an IPv4-style last part
\* stands for two hextets
IsIPv6(addr) ==
    /\ addr # << >>
    /\ \E parts \in { Split(addr, ":") } :
           /\ Len(parts) >= 3
           /\ IF In(".", parts[Len(parts)])
              THEN /\ IsIPv4(parts[Len(parts)])
                   /\ IPv6PartsOk(SubSeq(parts, 1, Len(parts) - 1) \o << << "0" >>, << "0" >> >>)
              ELSE IPv6PartsOk(parts)

\* ipaddress.IPv6Address(h) does not raise: the address, then "%" and a scope id
IsIPv6Address(h) ==
    /\ ~In("/", h)
    /\ \E p \in { Find(h, << "%" >>, 1) } :
           IF p = 0 THEN IsIPv6(h)
           ELSE /\ p < Len(h)
                /\ ~In("%", From(h, p + 1))
                /\ IsIPv6(SubSeq(h, 1, p - 1))

\* re.match(r"\Av[a-fA-F0-9]+\..+\Z", h), for an h without line breaks
IsIPvFuture(h) ==
    /\ StartsWith(h, << "v" >>)
    /\ \E d \in { FindAny(h, { c \in { h[k] : k \in DOMAIN h } : c \notin HEX_DIGITS }, 2) } :
           d >= 3 /\ h[d] = "." /\ d < Len(h)

\* urllib.parse._check_bracketed_host(h) does not raise
BracketedHostOk(h) ==
    IF StartsWith(h, << "v" >>) THEN IsIPvFuture(h) ELSE ~IsIPv4(h) /\ IsIPv6Address(h)

\* netloc.partition("[")[2].partition("]")[0]
BracketedHost(netloc) ==
    Value({ UpTo(after, Find(after, << "]" >>, 1)) :
            after \in { From(netloc, Find(netloc, << "[" >>, 1) + 1) } })

\* urlsplit's checks of the netloc raise ValueError (_checknetloc raises for no
\* netloc of Latin-1 characters)
NetlocRaises(netloc) ==
    \/ In("[", netloc) # In("]", netloc)
    \/ In("[", netloc) /\ In("]", netloc) /\ ~BracketedHostOk(BracketedHost(netloc))

\* 1-based index of the colon that ends a scheme, 0 when url starts with none
SchemeColon(url) ==
    Value({ IF i > 1 /\ url[1] \in AsciiLetters
               /\ \A k \in 1..(i - 1) : url[k] \in scheme_chars
            THEN i ELSE 0 :
            i \in { Find(url, << ":" >>, 1) } })

\* urllib.parse._splitparams(path)[0]
SplitParams(path) ==
    Value({ IF slash > 0 /\ i = 0 THEN path ELSE SubSeq(path, 1, i - 1) :
            slash \in { RFind(path, "/") },
            i \in { Find(path, << ";" >>, IF RFind(path, "/") > 0 THEN RFind(path, "/") ELSE 1) } })

\* urlsplit(url) from "if url[:2] == '//'" on, for the url that follows the
\* scheme: the path, or Raises
SplitPath(rest) ==
    IF ~StartsWith(rest, << "/", "/" >>) THEN UpTo(rest, FindAny(rest, { "?", "#" }, 1))
    ELSE Value({ IF NetlocRaises(SubSeq(rest, 3, (IF d = 0 THEN Len(rest) ELSE d - 1))) THEN Raises
                 ELSE IF d = 0 THEN << >>
                 ELSE UpTo(From(rest, d), FindAny(From(rest, d), { "?", "#" }, 1)) :
                 d \in { FindAny(rest, { "/", "?", "#" }, 3) } })

\* urlparse(url).path for the url that urlsplit has stripped of leading control
\* characters and spaces and of tabs and line breaks
ParsedPath(url) ==
    Value({ Value({ IF path # Raises
                       /\ (IF c = 0 THEN << >> ELSE Lower(SubSeq(url, 1, c - 1))) \in uses_params
                       /\ In(";", path)
                    THEN SplitParams(path)
                    ELSE path :
                    path \in { SplitPath(IF c = 0 THEN url ELSE From(url, c + 1)) } }) :
            c \in { SchemeColon(url) } })

\* urlparse(u).path, or Raises when urlparse raises ValueError
UrlPath(u) ==
    ParsedPath(SelectSeq(LStripChars(u, WHATWG_C0_CONTROL_OR_SPACE),
                         LAMBDA c : c \notin UNSAFE_URL_BYTES_TO_REMOVE))

\* True when path[i..dot-1] holds a character other than "." (genericpath._splitext)
RECURSIVE HasNonDot(_, _, _)
HasNonDot(path, i, dot) ==
    IF i >= dot THEN FALSE
    ELSE IF path[i] # "." THEN TRUE
    ELSE HasNonDot(path, i + 1, dot)

\* os.path.splitext(path)[1]
SplitExt(path) ==
    Value({ IF dot > sep /\ HasNonDot(path, sep + 1, dot) THEN From(path, dot) ELSE << >> :
            sep \in { RFind(path, "/") }, dot \in { RFind(path, ".") } })

KnownExts ==
    { << ".", "p", "n", "g" >>, << ".", "j", "p", "g" >>, << ".", "j", "p", "e", "g" >>,
      << ".", "w", "e", "b", "p" >>, << ".", "g", "i", "f" >>, << ".", "s", "v", "g" >> }

PNG == << "p", "n", "g" >>

\* lines 52-60; an exception of urlparse is swallowed at lines 58-59
_guess_ext_from_url(u) ==
    Value({ IF path = Raises THEN PNG
            ELSE Value({ IF ext \in KnownExts THEN LStripChars(ext, { "." }) ELSE PNG :
                         ext \in { Lower(SplitExt(path)) } }) :
            path \in { UrlPath(u) } })

(***************************************************************************)
(* DOM nodes.                                                              *)
(***************************************************************************)
Tag(name, attrs, contents) ==
    [ name |-> name, attrs |-> attrs, contents |-> contents, text |-> << >> ]

Text(t) == [ name |-> "#text", attrs |-> NoAttrs, contents |-> << >>, text |-> t ]

\* the absent node (find returning None)
NoNode == [ name |-> "#none", attrs |-> NoAttrs, contents |-> << >>, text |-> << >> ]

\* the BeautifulSoup object itself is a Tag named "[document]"
DocumentName == "[document]"

IsTag(n) == n.name \notin { "#text", "#none" }

\* every node below the nodes of kids, in document order (Tag.descendants)
RECURSIVE DescOfList(_)
DescOfList(kids) ==
    IF kids = << >> THEN << >>
    ELSE << Head(kids) >> \o DescOfList(Head(kids).contents) \o DescOfList(Tail(kids))

Descendants(n) == DescOfList(n.contents)

\* node.find_all(True)
Elements(n) == SelectSeq(Descendants(n), IsTag)

\* node.find_all(name)
FindAllNamed(n, name) == SelectSeq(Descendants(n), LAMBDA d : d.name = name)

FirstOrNone(seq) == Value({ IF s = << >> THEN NoNode ELSE Head(s) : s \in { seq } })

\* node.find(name)
FindNamed(n, name) == FirstOrNone(FindAllNamed(n, name))

ClassesOf(n) == IF Has(n.attrs, "class") THEN n.attrs["class"] ELSE << >>

HasClass(n, cls) == \E i \in 1..Len(ClassesOf(n)) : ClassesOf(n)[i] = cls

(***************************************************************************)
(* clean_article                                                           *)
(***************************************************************************)
RemovedTags == { "script", "style", "svg", "noscript" }

\* lines 137-141
allow ==
    { "p", "h1", "h2", "h3", "h4", "h5", "h6",
      "ul", "ol", "li", "img", "strong", "em", "b", "i", "a",
      "table", "thead", "tbody", "tr", "th", "td", "figure" }

IMAGE    == << "I", "m", "a", "g", "e" >>
HASH     == << "#" >>
NOOPENER == << "n", "o", "o", "p", "e", "n", "e", "r" >>
BLANK    == << "_", "b", "l", "a", "n", "k" >>

\* a decompose that looks at the children of the root only
DecomposeRemovedTopLevel(kids) == SelectSeq(kids, LAMBDA k : k.name \notin RemovedTags)

\* lines 134-135: decompose every script/style/svg/noscript with its subtree
RECURSIVE DecomposeRemoved(_)
DecomposeRemoved(kids) ==
    IF kids = << >> THEN << >>
    ELSE (IF Head(kids).name \in RemovedTags THEN << >>
          ELSE << [ Head(kids) EXCEPT !.contents = DecomposeRemoved(@) ] >>)
         \o DecomposeRemoved(Tail(kids))

\* tag.get("alt", "")
AltOrEmpty(tag) == IF Has(tag.attrs, "alt") THEN tag.attrs["alt"] ELSE << >>

\* lines 147-159: the attributes an allowed tag keeps
CleanAttrs(tag) ==
    IF tag.name = "img" THEN ("alt" :> Or(Strip(AltOrEmpty(tag)), IMAGE))
    ELSE IF tag.name = "a"
    THEN ("href" :> Or(_normalize_url(Get(tag.attrs, "href")), HASH))
         @@ ("rel" :> NOOPENER) @@ ("target" :> BLANK)
    ELSE NoAttrs

\* an unwrap that leaves what an unwrapped tag holds as it is
RECURSIVE UnwrapOneLevel(_)
UnwrapOneLevel(kids) ==
    IF kids = << >> THEN << >>
    ELSE (IF ~IsTag(Head(kids)) THEN << Head(kids) >>
          ELSE IF Head(kids).name \notin allow THEN Head(kids).contents
          ELSE << [ Head(kids) EXCEPT !.attrs = CleanAttrs(Head(kids)),
                                      !.contents = UnwrapOneLevel(@) ] >>)
         \o UnwrapOneLevel(Tail(kids))

\* lines 142-159: unwrap every tag outside allow, rewrite the attributes of the others
RECURSIVE UnwrapAndStrip(_)
UnwrapAndStrip(kids) ==
    IF kids = << >> THEN << >>
    ELSE (IF ~IsTag(Head(kids)) THEN << Head(kids) >>
          ELSE IF Head(kids).name \notin allow THEN UnwrapAndStrip(Head(kids).contents)
          ELSE << [ Head(kids) EXCEPT !.attrs = CleanAttrs(Head(kids)),
                                      !.contents = UnwrapAndStrip(@) ] >>)
         \o UnwrapAndStrip(Tail(kids))

clean_article(a) ==
    Value({ [ a EXCEPT !.contents = UnwrapAndStrip(kept) ] :
            kept \in { DecomposeRemoved(a.contents) } })


(***************************************************************************)
(* apply_placeholders                                                      *)
(***************************************************************************)
IMAGES_DIR   == << "i", "m", "a", "g", "e", "s", "/" >>
IMAGE_PREFIX == << "i", "m", "a", "g", "e" >>
BANNER       == << "B", "a", "n", "n", "e", "r" >>
SLOT         == "data-img-slot"

\* a numbering that starts at image0
new_filename_for_from_zero(url_map, url) ==
    IMAGE_PREFIX \o Digits(Cardinality(DOMAIN url_map)) \o << "." >> \o _guess_ext_from_url(url)

\* lines 182-188: f"image{idx}.{ext}" with idx = len(image_url_map) + 1
new_filename_for(url_map, url) ==
    IMAGE_PREFIX \o Digits(Cardinality(DOMAIN url_map) + 1) \o << "." >> \o _guess_ext_from_url(url)

\* soup.new_tag exists on the BeautifulSoup object only: on any other Tag the
\* attribute lookup is Tag.__getattr__, i.e. find("new_tag"), and calling its
\* result (None when the tree has no <new_tag> element) raises TypeError
CanNewTag(root) == root.name = DocumentName

\* lines 176-180: the locals of apply_placeholders, and whether it has raised
NewLocals(root) ==
    [ raised        |-> FALSE,
      can_new_tag   |-> CanNewTag(root),
      image_url_map |-> << >>,
      name_for_url  |-> << >>,
      images_list   |-> << >>,
      image_names   |-> << >>,
      slot_counter  |-> 1,
      parent_attrs  |-> NoAttrs ]

\* lines 195-198 and 242-245: record a newly seen URL under fname
Remember(st, url, fname) ==
    [ st EXCEPT !.image_url_map = SetAttr(@, fname, url),
                !.name_for_url  = SetAttr(@, url, fname),
                !.images_list   = Append(@, url),
                !.image_names   = Append(@, fname) ]

\* if not img.get("alt"): img["alt"] = "Image"
EnsureAlt(attrs) == IF Truthy(Get(attrs, "alt")) THEN attrs ELSE SetAttr(attrs, "alt", IMAGE)

\* img["src"] = f"images/{fname}", then the alt default
Placeheld(img, fname) ==
    [ img EXCEPT !.attrs = EnsureAlt(SetAttr(@, "src", IMAGES_DIR \o fname)) ]

\* line 217: the img is taken for the banner placeholder inserted by step 1
IsBannerPlaceholder(img) ==
    /\ Truthy(Get(img.attrs, "src"))
    /\ StartsWith(img.attrs["src"], IMAGES_DIR \o IMAGE_PREFIX)
    /\ Find(Or(Get(img.attrs, "alt"), << >>), BANNER, 1) > 0

\* a lookup that never recognises a URL
AlreadySeenNever(st, url) == FALSE

\* line 227: url in name_for_url
AlreadySeen(st, url) == Has(st.name_for_url, url)

\* lines 228-238: the img repeats a URL
VisitDuplicate(img, parent, st, url) ==
    [ nodes |-> << Placeheld(img, st.name_for_url[url]) >>,
      st    |-> IF parent = "figure" /\ Has(st.parent_attrs, SLOT)
                THEN [ st EXCEPT !.parent_attrs = DelAttr(@, SLOT) ]
                ELSE st ]

\* lines 247-259: the placeholder and the figure of a first occurrence; st1 holds
\* the URL already, slot is str(slot_counter)
PlaceNew(img, parent, st1, fname, slot) ==
    IF parent = "figure"
    THEN [ nodes |-> << Placeheld(img, fname) >>,
           st    |-> [ st1 EXCEPT !.parent_attrs = SetAttr(@, SLOT, slot),
                                  !.slot_counter = @ + 1 ] ]
    ELSE IF ~st1.can_new_tag
    THEN [ nodes |-> << Placeheld(img, fname) >>, st |-> [ st1 EXCEPT !.raised = TRUE ] ]
    ELSE [ nodes |-> << Tag("figure", (SLOT :> slot), << Placeheld(img, fname) >>) >>,
           st    |-> [ st1 EXCEPT !.slot_counter = @ + 1 ] ]

\* lines 241-259: the img brings a new URL
VisitNew(img, parent, st, url) ==
    Value({ PlaceNew(img, parent, Remember(st, url, fname), fname, Digits(st.slot_counter)) :
            fname \in { new_filename_for(st.image_url_map, url) } })

\* lines 220-259 for an img that is not the banner placeholder
VisitUrl(img, parent, st, url) ==
    IF url = None THEN [ nodes |-> << >>, st |-> st ]
    ELSE IF AlreadySeen(st, url) THEN VisitDuplicate(img, parent, st, url)
    ELSE VisitNew(img, parent, st, url)

\* lines 214-259 for one img whose parent tag is named parent; st.parent_attrs
\* are that parent's attributes.  Yields the nodes that take the img's place.
VisitImg(img, parent, st) ==
    IF IsBannerPlaceholder(img) THEN [ nodes |-> << img >>, st |-> st ]
    ELSE VisitUrl(img, parent, st, _get_img_src(img))

\* a tag whose subtree the loop has gone through: in holds its new children and
\* the locals, with the tag's own attributes in parent_attrs
Closed(h, in, outer) ==
    [ nodes |-> << [ h EXCEPT !.attrs = in.st.parent_attrs, !.contents = in.nodes ] >>,
      st    |-> [ in.st EXCEPT !.parent_attrs = outer ] ]

Joined(r, t) == [ nodes |-> r.nodes \o t.nodes, st |-> t.st ]

\* the loop of line 214 over the imgs below kids, in document order; parent is the
\* name of the tag holding kids
RECURSIVE VisitImgs(_, _, _)
RECURSIVE VisitNode(_, _, _)
VisitNode(h, parent, st) ==
    IF h.name = "img" THEN VisitImg(h, parent, st)
    ELSE IF ~IsTag(h) \/ h.contents = << >> THEN [ nodes |-> << h >>, st |-> st ]
    ELSE Value({ Closed(h, in, st.parent_attrs) :
                 in \in { VisitImgs(h.contents, h.name, [ st EXCEPT !.parent_attrs = h.attrs ]) } })

VisitImgs(kids, parent, st) ==
    IF kids = << >> \/ st.raised THEN [ nodes |-> kids, st |-> st ]
    ELSE Value({ Value({ Joined(r, t) : t \in { VisitImgs(Tail(kids), parent, r.st) } }) :
                 r \in { VisitNode(Head(kids), parent, st) } })

\* lines 200-211: <p><figure data-img-slot="1"><img src alt="Banner"/></figure></p>
BannerBlock(fname, slot) ==
    Tag("p", NoAttrs,
        << Tag("figure", (SLOT :> slot),
               << Tag("img", ("src" :> (IMAGES_DIR \o fname)) @@ ("alt" :> BANNER), << >>) >>) >>)

\* lines 194-211, st1 holding the banner already
PlaceBanner(root, st1, fname, slot) ==
    IF ~st1.can_new_tag
    THEN [ root |-> root, st |-> [ st1 EXCEPT !.raised = TRUE ] ]
    ELSE [ root |-> [ root EXCEPT !.contents = << BannerBlock(fname, slot) >> \o @ ],
           st   |-> [ st1 EXCEPT !.slot_counter = @ + 1 ] ]

\* lines 191-193
NormalizedBanner(banner) == IF Truthy(banner) THEN _normalize_url(banner) ELSE None

\* lines 190-211: the banner is image1 and its block goes first
InsertBanner(root, banner, st) ==
    Value({ IF b = None THEN [ root |-> root, st |-> st ]
            ELSE Value({ PlaceBanner(root, Remember(st, b, fname), fname, Digits(st.slot_counter)) :
                         fname \in { new_filename_for(st.image_url_map, b) } }) :
            b \in { NormalizedBanner(banner) } })

\* line 261
Returned(root, w) ==
    [ raised        |-> w.st.raised,
      soup          |-> [ root EXCEPT !.contents = w.nodes, !.attrs = w.st.parent_attrs ],
      image_url_map |-> w.st.image_url_map,
      images_list   |-> w.st.images_list,
      image_names   |-> w.st.image_names ]

\* lines 213-259 on the root the banner step has left
ReplaceImgs(b) ==
    Value({ Returned(b.root, w) :
            w \in { VisitImgs(b.root.contents, b.root.name,
                              [ b.st EXCEPT !.parent_attrs = b.root.attrs ]) } })

\* apply_placeholders(article, banner_url): what it returns, or raised = TRUE
apply_placeholders(root, banner) ==
    Value({ ReplaceImgs(b) : b \in { InsertBanner(root, banner, NewLocals(root)) } })

(***************************************************************************)
(* find_banner_url                                                         *)
(***************************************************************************)
BACKGROUND_IMAGE ==
    << "b", "a", "c", "k", "g", "r", "o", "u", "n", "d", "-", "i", "m", "a", "g", "e" >>
URL_OPEN == << "u", "r", "l", "(" >>
OG_IMAGE == << "o", "g", ":", "i", "m", "a", "g", "e" >>
WRAPPER_BANNER_IMAGE == "wrapper-banner-image"

\* first index >= i of s that holds no whitespace (Len(s) + 1 when none): \s*
RECURSIVE SkipWs(_, _)
SkipWs(s, i) == IF i <= Len(s) /\ s[i] \in Whitespace THEN SkipWs(s, i + 1) ELSE i

\* l[i..] starts with p: the index that follows p, 0 otherwise
After(l, i, p) ==
    IF i + Len(p) - 1 <= Len(l) /\ SubSeq(l, i, i + Len(p) - 1) = p THEN i + Len(p) ELSE 0

\* \s*:\s* at i: the index that follows, 0 when there is no colon
AfterColon(l, i) ==
    Value({ IF b <= Len(l) /\ l[b] = ":" THEN SkipWs(l, b + 1) ELSE 0 : b \in { SkipWs(l, i) } })

\* r"background-image\s*:\s*url\(" matched at position i of the lowered style l:
\* the index that follows the match, 0 when it does not match there
BgPrefixAt(l, i) ==
    Value({ IF a = 0 THEN 0
            ELSE Value({ IF c = 0 THEN 0 ELSE After(l, c, URL_OPEN) : c \in { AfterColon(l, a) } }) :
            a \in { After(l, i, BACKGROUND_IMAGE) } })

\* re.compile(r"background-image\s*:\s*url\(", re.IGNORECASE).search(style); among
\* the characters of Latin-1 a letter of the pattern matches its two ASCII cases only
BgPrefixSearch(style) ==
    Value({ \E i \in 1..Len(l) : BgPrefixAt(l, i) > 0 : l \in { Lower(style) } })

\* (.*?)\) from d on: the index of the closing parenthesis, 0 when a newline or
\* the end comes first ("." matches no newline)
CloseAt(s, d) ==
    Value({ IF e > 0 /\ s[e] = ")" THEN e ELSE 0 : e \in { FindAny(s, { ")", "\n" }, d) } })

\* r"background-image\s*:\s*url\((.*?)\)" matched at i: m.group(1), None when it
\* does not match there
BgGroupAt(s, l, i) ==
    Value({ IF d = 0 THEN None
            ELSE Value({ IF e = 0 THEN None ELSE SubSeq(s, d, e - 1) : e \in { CloseAt(s, d) } }) :
            d \in { BgPrefixAt(l, i) } })

\* the leftmost match from i on
RECURSIVE BgGroupFrom(_, _, _)
BgGroupFrom(s, l, i) ==
    IF i > Len(s) THEN None
    ELSE Value({ IF g # None THEN g ELSE BgGroupFrom(s, l, i + 1) : g \in { BgGroupAt(s, l, i) } })

\* re.search(r"background-image\s*:\s*url\((.*?)\)", style, re.IGNORECASE):
\* m.group(1), None when there is no match
BgUrlSearch(style) == BgGroupFrom(style, Lower(style), 1)

\* _normalize_url(m.group(1).strip("\"' ")) of the style's background-image, or None
BgUrlOf(style) ==
    Value({ IF g = None THEN None ELSE _normalize_url(StripChars(g, { "\"", "'", " " })) :
            g \in { BgUrlSearch(style) } })

\* lines 98-104
StyleBanner(tag) ==
    Value({ IF Truthy(style) THEN BgUrlOf(style) ELSE None : style \in { Get(tag.attrs, "style") } })

\* lines 105-109
InnerImgBanner(wrap) ==
    Value({ IF inner_img # NoNode THEN _get_img_src(inner_img) ELSE None :
            inner_img \in { FindNamed(wrap, "img") } })

\* lines 97-109 for the wrapper found
WrapBanner(wrap) ==
    IF wrap = NoNode THEN None
    ELSE Value({ IF u # None THEN u ELSE InnerImgBanner(wrap) : u \in { StyleBanner(wrap) } })

\* lines 96-109: the explicit wrapper
WrapperBanner(soup_) ==
    WrapBanner(FirstOrNone(SelectSeq(Elements(soup_), LAMBDA e : HasClass(e, WRAPPER_BANNER_IMAGE))))

HasBgStyle(e) == Has(e.attrs, "style") /\ BgPrefixSearch(e.attrs["style"])

\* lines 113-119 for the node found
AnyBgBanner(any_bg) == IF any_bg = NoNode THEN None ELSE BgUrlOf(any_bg.attrs["style"])

\* lines 112-119: any node with a background-image style
AnyBackgroundBanner(soup_) == AnyBgBanner(FirstOrNone(SelectSeq(Elements(soup_), HasBgStyle)))

IsOgImage(e) == e.name = "meta" /\ Get(e.attrs, "property") = OG_IMAGE

\* lines 123-126 for the meta found
OgBanner(og) ==
    IF og # NoNode /\ Truthy(Get(og.attrs, "content"))
    THEN _normalize_url(Strip(og.attrs["content"]))
    ELSE None

\* lines 122-126: og:image
OgImageBanner(soup_) == OgBanner(FirstOrNone(SelectSeq(Elements(soup_), IsOgImage)))

\* the first of three optional URLs that is one
FirstUrl(a, b, c) == IF a # None THEN a ELSE IF b # None THEN b ELSE c

\* a resolver that trusts the metadata first
find_banner_url_og_first(soup_) ==
    FirstUrl(OgImageBanner(soup_), WrapperBanner(soup_), AnyBackgroundBanner(soup_))

find_banner_url(soup_) ==
    FirstUrl(WrapperBanner(soup_), AnyBackgroundBanner(soup_), OgImageBanner(soup_))

(***************************************************************************)
(* extract_blog_content                                                    *)
(***************************************************************************)
\* the positions of the nodes below kids, in document order; a position is the
\* sequence of child indexes leading to the node
RECURSIVE PathsFrom(_, _, _)
PathsFrom(kids, prefix, i) ==
    IF i > Len(kids) THEN << >>
    ELSE << Append(prefix, i) >>
         \o PathsFrom(kids[i].contents, Append(prefix, i), 1)
         \o PathsFrom(kids, prefix, i + 1)

Paths(root) == PathsFrom(root.contents, << >>, 1)

RECURSIVE NodeAt(_, _)
NodeAt(root, path) ==
    IF path = << >> THEN root ELSE NodeAt(root.contents[Head(path)], Tail(path))

NoPath == << 0 >>

FirstPathOrNone(hits) == IF hits = << >> THEN NoPath ELSE Head(hits)

\* find(name) with no class_ argument
AnyClass == ""

\* position of the first element below root with that name and, unless cls is
\* AnyClass, that class: soup.find(name, class_=cls); NoPath when none
FindPath(root, name, cls) ==
    FirstPathOrNone(SelectSeq(Paths(root),
        LAMBDA q : NodeAt(root, q).name = name /\ (cls = AnyClass \/ HasClass(NodeAt(root, q), cls))))

RemoveIndex(seq, i) == SubSeq(seq, 1, i - 1) \o SubSeq(seq, i + 1, Len(seq))

\* root without the node at path (PageElement.extract)
RECURSIVE RemoveAt(_, _)
RemoveAt(root, path) ==
    IF Len(path) = 1 THEN [ root EXCEPT !.contents = RemoveIndex(@, path[1]) ]
    ELSE [ root EXCEPT !.contents[Head(path)] = RemoveAt(@, Tail(path)) ]

IsPrefix(p, q) == Len(p) <= Len(q) /\ SubSeq(q, 1, Len(p)) = p

ARTICLE_CLASSES == << "blog-content", "post-content", "entry-content", "content", "article-body" >>

\* line 277: soup.body or soup
BodyOrDocument(soup_) ==
    Value({ IF body # NoPath THEN body ELSE << >> :
            body \in { FindPath(soup_, "body", AnyClass) } })

\* lines 272-277: the first class of the list, from the k-th on, that a div carries
RECURSIVE FirstClassDiv(_, _)
FirstClassDiv(soup_, k) ==
    IF k > Len(ARTICLE_CLASSES) THEN BodyOrDocument(soup_)
    ELSE Value({ IF d # NoPath THEN d ELSE FirstClassDiv(soup_, k + 1) :
                 d \in { FindPath(soup_, "div", ARTICLE_CLASSES[k]) } })

\* lines 270-277: position of the article root in the document (<< >> is the document)
ArticlePath(soup_) ==
    Value({ IF art # NoPath THEN art ELSE FirstClassDiv(soup_, 1) :
            art \in { FindPath(soup_, "article", AnyClass) } })

\* line 279
H1Path(soup_) == FindPath(soup_, "h1", AnyClass)

\* article.insert(0, h1): h1 leaves its place below art, when it has one, and goes first
InsertFirst(art, h1, below) ==
    [ (IF below = << >> THEN art ELSE RemoveAt(art, below)) EXCEPT !.contents = << h1 >> \o @ ]

\* what article.insert(0, h1) leaves when h1 is an ancestor of the article root:
\* insert refuses only the root itself, so h1 is extracted with the root inside it
\* and becomes the root's first child.  The root is then below itself, its
\* next_element is h1 and h1's lead back to the root: no finite tree describes it
CyclicTree == [ name |-> "#cyclic", attrs |-> NoAttrs, contents |-> << >>, text |-> << >> ]

\* lines 285-286 for the positions found
MoveH1(soup_, pa, ph) ==
    IF ph = NoPath THEN NodeAt(soup_, pa)
    ELSE IF IsPrefix(ph, pa) THEN CyclicTree
    ELSE InsertFirst(NodeAt(soup_, pa), NodeAt(soup_, ph),
                     IF IsPrefix(pa, ph) THEN SubSeq(ph, Len(pa) + 1, Len(ph)) ELSE << >>)

\* lines 270-286: the article root with the document's first h1 moved to its front
PrependH1(soup_) == MoveH1(soup_, ArticlePath(soup_), H1Path(soup_))

\* the value of a call that never returns
Unending == << "unending" >>

\* extract_blog_content(html): what apply_placeholders returns for the cleaned
\* root; on the cyclic tree the walk of line 134 (for an empty root, the search for
\* a next sibling inside insert) follows the cycle and never ends
extract_blog_content(soup_) ==
    IF PrependH1(soup_) = CyclicTree THEN Unending
    ELSE apply_placeholders(clean_article(PrependH1(soup_)), find_banner_url(soup_))

(***************************************************************************)
(* scrape_blog: title (lines 312-319)                                      *)
(***************************************************************************)
\* Tag.string: the single string below a chain of only children
RECURSIVE StringOf(_)
StringOf(n) ==
    IF ~IsTag(n) THEN (IF n = NoNode THEN None ELSE n.text)
    ELSE IF Len(n.contents) # 1 THEN None
    ELSE StringOf(n.contents[1])

\* HTMLTreeBuilder.string_containers: a string parsed below one of these
\* elements is a RubyTextString, RubyParenthesisString, Stylesheet, Script
\* or TemplateString and not a NavigableString proper.
STRING_CONTAINERS == { "rt", "rp", "style", "script", "template" }

\* The h1 lies below a string container of the parsed document.
Contained(soup_, ph) ==
    \E k \in 1..(Len(ph) - 1) : NodeAt(soup_, SubSeq(ph, 1, k)).name \in STRING_CONTAINERS

\* Tag.get_text(strip=True) of an element that is no string container
\* itself: the stripped non-empty strings below it, in document order,
\* that are NavigableString proper (bs4 4.9 and later; earlier versions
\* joined the text of style, script and template in as well; src/ pins no
\* version, and the annotations of app.py need Python 3.10, which those
\* versions do not run on).
RECURSIVE JoinStripped(_, _)
JoinStripped(nodes, contained) ==
    IF nodes = << >> THEN << >>
    ELSE (IF Head(nodes).name = "#text"
          THEN (IF contained THEN << >> ELSE Strip(Head(nodes).text))
          ELSE JoinStripped(Head(nodes).contents,
                            contained \/ Head(nodes).name \in STRING_CONTAINERS))
         \o JoinStripped(Tail(nodes), contained)

GetTextStripped(n, contained) == JoinStripped(n.contents, contained)

\* lines 313-315
TitleString(t) ==
    IF t = NoNode THEN None
    ELSE Value({ IF Truthy(s) THEN Strip(s) ELSE None : s \in { StringOf(t) } })

\* lines 316-319
TitleOr(title_, h1, contained) ==
    Or(IF h1 # NoNode /\ ~Truthy(title_) THEN GetTextStripped(h1, contained) ELSE title_, << >>)

ResolveTitle(soup_) ==
    TitleOr(TitleString(FindNamed(soup_, "title")), FindNamed(soup_, "h1"),
            H1Path(soup_) # NoPath /\ Contained(soup_, H1Path(soup_)))

(***************************************************************************)
(* Values the variables hold while an operation does not use them.         *)
(***************************************************************************)
NoRequest  == [ kind |-> "none" ]
NoResponse == [ status |-> 0 ]

Idle(p, req, tree, art, banner) ==
    /\ pc = p
    /\ request = req
    /\ soup = tree
    /\ article = art
    /\ prev = NoNode
    /\ banner_url = banner
    /\ image_url_map = << >>
    /\ images_list = << >>
    /\ image_names = << >>
    /\ title = << >>
    /\ steps = << >>
    /\ response = NoResponse

(***************************************************************************)
(* Inputs: URLs and img elements.                                          *)
(***************************************************************************)
UrlA      == HTTPS \o << "c", "d", "n", "/", "a", ".", "p", "n", "g" >>
UrlB      == HTTPS \o << "c", "d", "n", "/", "b", ".", "J", "P", "G", ";", "v", "=", "1", "?", "w", "=", "8", "0", "0" >>
\* a URL that urlparse refuses (a bracket that is not closed)
UrlC      == HTTP \o << "[", "c", "d", "n", "/", "c", ".", "g", "i", "f" >>
RawA2     == << "\r", "\n", "/", "/", "c", "d", "n", "/", "a", ".", "p", "n", "g" >>
RawRel    == << "i", "m", "g", "/", "a", ".", "p", "n", "g" >>
UrlBanner == HTTPS \o << "c", "d", "n", "/", "b", "a", "n", "n", "e", "r", ".", "j", "p", "g" >>
UrlJane   == HTTPS \o << "c", "d", "n", "/", "j", "a", "n", "e", ".", "j", "p", "g" >>
UrlHero   == HTTPS \o << "c", "d", "n", "/", "h", "e", "r", "o", ".", "w", "e", "b", "p" >>
RawPRA    == << "/", "/", "c", "d", "n", "/", "a", ".", "j", "p", "g" >>
UrlPRA    == HTTPS \o << "c", "d", "n", "/", "a", ".", "j", "p", "g" >>
JANE_SMITH == << "J", "a", "n", "e", " ", "S", "m", "i", "t", "h" >>

Img(attrs) == Tag("img", attrs, << >>)

ImgA   == Img("src" :> UrlA)
ImgB   == Img(("src" :> UrlB) @@ ("alt" :> << "b" >>))
ImgC   == Img(("data-src" :> UrlC) @@ ("src" :> << >>))
ImgA2  == Img("src" :> RawA2)
ImgRel == Img("src" :> RawRel)

(***************************************************************************)
(* Operation: apply_placeholders on a body and a banner.                   *)
(***************************************************************************)
MaxBody == 4

\* the children a body is made of
PhItems ==
    { ImgA, ImgB, ImgC, ImgRel,
      Tag("figure", NoAttrs, << ImgA2 >>),
      Tag("figure", NoAttrs, << ImgA, ImgB >>),
      Tag("figure", NoAttrs, << ImgB, ImgB >>) }

RECURSIVE SeqsUpTo(_, _)
SeqsUpTo(S, n) ==
    IF n = 0 THEN { << >> }
    ELSE SeqsUpTo(S, n - 1) \cup { Append(q, x) : q \in { r \in SeqsUpTo(S, n - 1) : Len(r) = n - 1 }, x \in S }

PhRoots == { DocumentName, "article" }

PhBodies == { Tag(r, NoAttrs, k) : r \in PhRoots, k \in SeqsUpTo(PhItems, MaxBody) }

PhBanners == { None, UrlA, UrlBanner }

InitPlaceholders ==
    \E body \in PhBodies, b \in PhBanners : Idle("ph_call", NoRequest, body, body, b)

\* the call apply_placeholders(article, banner_url) and the tuple it returns
ApplyPlaceholdersCall ==
    /\ pc = "ph_call"
    /\ \E r \in { apply_placeholders(article, banner_url) } :
           /\ pc' = IF r.raised THEN "ph_raised" ELSE "ph_returned"
           /\ article' = r.soup
           /\ image_url_map' = r.image_url_map
           /\ images_list' = r.images_list
           /\ image_names' = r.image_names
    /\ UNCHANGED << request, soup, prev, banner_url, title, steps, response >>

NextPlaceholders == ApplyPlaceholdersCall

SpecPlaceholders == InitPlaceholders /\ [][NextPlaceholders]_vars


(***************************************************************************)
(* Properties of apply_placeholders.                                       *)
(***************************************************************************)
Range(seq) == { seq[i] : i \in DOMAIN seq }

NoRepeats(seq) == \A i, j \in DOMAIN seq : seq[i] = seq[j] => i = j

\* seq without the later occurrences of a value
RECURSIVE FirstSeen(_)
FirstSeen(seq) ==
    IF seq = << >> THEN << >>
    ELSE LET front == FirstSeen(SubSeq(seq, 1, Len(seq) - 1))
             last  == seq[Len(seq)]
         IN  IF last \in Range(front) THEN front ELSE Append(front, last)

IndexOf(seq, x) == CHOOSE i \in DOMAIN seq : seq[i] = x

\* the URLs of the imgs of the input body that resolve, in document order
BodyUrls(body) ==
    LET imgs == FindAllNamed(body, "img")
        urls == [ i \in DOMAIN imgs |-> _get_img_src(imgs[i]) ]
    IN  SelectSeq(urls, LAMBDA u : u # None)

\* the banner first when present, then the body's URLs
SeenUrls(body, banner) == (IF banner = None THEN << >> ELSE << banner >>) \o BodyUrls(body)

PlaceholderName(k, url) == "image" \o ToString(k) \o "." \o Str(_guess_ext_from_url(url))

\* C1: whenever apply_placeholders returns, images, image_names and image_url_map
\* have the same length, images holds no URL twice, and image_url_map sends the
\* i-th name to the i-th image
C1_ParallelOutputs ==
    pc = "ph_returned" =>
        /\ Len(images_list) = Len(image_names)
        /\ Len(image_names) = Cardinality(DOMAIN image_url_map)
        /\ NoRepeats(images_list)
        /\ \A i \in DOMAIN images_list :
               /\ image_names[i] \in DOMAIN image_url_map
               /\ image_url_map[image_names[i]] = images_list[i]

C1_Witness ==
    /\ pc = "ph_returned"
    /\ banner_url = UrlA
    /\ ImgRel \in Range(soup.contents)
    /\ Len(BodyUrls(soup)) >= 3
    /\ UrlA \in Range(BodyUrls(soup))
    /\ Len(images_list) = 2

\* C2: whenever apply_placeholders returns, the k-th distinct URL in first-seen order
\* (banner, then document order) is named image<k>.<ext>, and every img that
\* resolved, first occurrence or duplicate, has src images/image<k>.<ext> for the
\* ordinal k of its URL
C2_OrdinalStability ==
    pc = "ph_returned" =>
        LET order   == FirstSeen(SeenUrls(soup, banner_url))
            inUrls  == SeenUrls(soup, banner_url)
            outImgs == FindAllNamed(article, "img")
        IN  /\ images_list = order
            /\ Len(image_names) = Len(order)
            /\ \A k \in DOMAIN order : Str(image_names[k]) = PlaceholderName(k, order[k])
            /\ Len(outImgs) = Len(inUrls)
            /\ \A i \in DOMAIN inUrls :
                   Str(outImgs[i].attrs["src"]) =
                       "images/" \o PlaceholderName(IndexOf(order, inUrls[i]), inUrls[i])

C2_Witness ==
    /\ pc = "ph_returned"
    /\ banner_url = None
    /\ soup.contents = << ImgA, ImgB, ImgA, ImgC >>
    /\ images_list = << UrlA, UrlB, UrlC >>
    /\ [ i \in 1..3 |-> Str(image_names[i]) ] = << "image1.png", "image2.jpg", "image3.png" >>

\* the figures of a tree, in document order
Figures(root) == FindAllNamed(root, "figure")

\* C10: whenever apply_placeholders returns, for every ordinal n exactly one figure
\* carries data-img-slot = n, and that figure holds the first img that points at
\* the n-th placeholder
C10_SlotPerOrdinal ==
    pc = "ph_returned" =>
        \A n \in DOMAIN images_list :
            LET figs  == Figures(article)
                with  == { i \in DOMAIN figs : Get(figs[i].attrs, SLOT) = Digits(n) }
                first == FirstOrNone(SelectSeq(FindAllNamed(article, "img"),
                             LAMBDA g : g.attrs["src"] = IMAGES_DIR \o image_names[n]))
            IN  /\ Cardinality(with) = 1
                /\ \A i \in with : first \in Range(figs[i].contents)


(***************************************************************************)
(* Operation: clean_article on a tree, and again on its own output.        *)
(***************************************************************************)
MaxNodes == 3

\* elements that may hold children: name and attributes
SanContainers ==
    << [ name |-> "div",    attrs |-> ("class" :> << "widget" >>) ],
       [ name |-> "span",   attrs |-> NoAttrs ],
       [ name |-> "p",      attrs |-> ("style" :> << "c", "o", "l", "o", "r", ":", "r", "e", "d" >>) ],
       [ name |-> "script", attrs |-> NoAttrs ],
       [ name |-> "figure", attrs |-> (SLOT :> << "7" >>) ],
       [ name |-> "a",      attrs |-> ("href" :> RawA2) ],
       [ name |-> "a",      attrs |-> ("href" :> RawRel) @@ ("rel" :> << "n", "o", "f", "o", "l", "l", "o", "w" >>) ],
       [ name |-> "a",      attrs |-> NoAttrs ] >>

SanLeaves ==
    << Text(<< "X" >>),
       Img("src" :> UrlA),
       Img(("src" :> UrlB) @@ ("alt" :> << " ", "\f" >>)),
       Img(("src" :> UrlJane) @@ ("alt" :> << " " >> \o JANE_SMITH)) >>

\* the i-th pair of a sequence of length a and one of length b, first index slowest
Left(i, b)  == ((i - 1) \div b) + 1
Right(i, b) == ((i - 1) % b) + 1

\* every container around every forest of g
Wrapped(g) ==
    [ i \in 1..(Len(SanContainers) * Len(g)) |->
        Tag(SanContainers[Left(i, Len(g))].name, SanContainers[Left(i, Len(g))].attrs,
            g[Right(i, Len(g))]) ]

\* every tree of t ahead of every forest of f
Ahead(t, f) ==
    [ i \in 1..(Len(t) * Len(f)) |-> << t[Left(i, Len(f))] >> \o f[Right(i, Len(f))] ]

\* the trees of k nodes, and the sequences of trees that hold n nodes in all, each
\* listed once
RECURSIVE Forests(_)
RECURSIVE Trees(_)
RECURSIVE ForestsFrom(_, _)
Trees(k) == (IF k = 1 THEN SanLeaves ELSE << >>) \o Wrapped(Forests(k - 1))

\* the forests of n nodes whose first tree has k nodes or more
ForestsFrom(n, k) ==
    IF k > n THEN << >>
    ELSE Ahead(Trees(k), Forests(n - k)) \o ForestsFrom(n, k + 1)

Forests(n) == IF n = 0 THEN << << >> >> ELSE ForestsFrom(n, 1)

RECURSIVE ForestsUpTo(_)
ForestsUpTo(m) == IF m = 0 THEN Forests(0) ELSE ForestsUpTo(m - 1) \o Forests(m)

InitSanitize ==
    \E fs \in { ForestsUpTo(MaxNodes) } : \E i \in DOMAIN fs :
        \E t \in { Tag("article", NoAttrs, fs[i]) } : Idle("san_call", NoRequest, t, t, None)

\* clean_article(article)
SanitizeCall ==
    /\ pc = "san_call"
    /\ pc' = "san_once"
    /\ prev' = article
    /\ article' = clean_article(article)
    /\ UNCHANGED << request, soup, banner_url, image_url_map, images_list, image_names,
                    title, steps, response >>

\* clean_article on the tree clean_article returned
SanitizeAgain ==
    /\ pc = "san_once"
    /\ pc' = "san_twice"
    /\ prev' = article
    /\ article' = clean_article(article)
    /\ UNCHANGED << request, soup, banner_url, image_url_map, images_list, image_names,
                    title, steps, response >>

NextSanitize == SanitizeCall \/ SanitizeAgain

SpecSanitize == InitSanitize /\ [][NextSanitize]_vars

\* C6: the second run of clean_article leaves the output of the first unchanged
C6_SanitizeIdempotent == pc = "san_twice" => article = prev

\* the first run changed the tree: it unwrapped a nested disallowed tag, defaulted an
\* alt and rewrote an href
C6_Witness ==
    /\ pc = "san_twice"
    /\ \E d \in Range(Elements(soup)) :
           d.name = "div" /\ \E e \in Range(d.contents) : e.name \in { "span", "a" }
    /\ article # soup

\* name of an element, text of a string
Label(n) == IF IsTag(n) THEN << n.name >> ELSE n.text

\* what the input must become: its strings and allowed elements that lie in no
\* script/style/svg/noscript, in document order, each with the number of allowed
\* elements around it
ExpectedOutline(root) ==
    LET ps   == Paths(root)
        at(q) == NodeAt(root, q)
        ups(q) == { SubSeq(q, 1, k) : k \in 1..(Len(q) - 1) }
        kept == SelectSeq(ps, LAMBDA q :
                    /\ ~IsTag(at(q)) \/ at(q).name \in allow
                    /\ \A u \in ups(q) \cup { q } : at(u).name \notin RemovedTags)
    IN  [ i \in DOMAIN kept |->
            [ label |-> Label(at(kept[i])),
              depth |-> Cardinality({ u \in ups(kept[i]) : at(u).name \in allow }) ] ]

\* the nodes of a tree in document order, each with its depth
Outline(root) ==
    LET ps == Paths(root)
    IN  [ i \in DOMAIN ps |->
            [ label |-> Label(NodeAt(root, ps[i])), depth |-> Len(ps[i]) - 1 ] ]

\* C7: after clean_article every element below the root is on the allow-list, no
\* script/style/svg/noscript subtree is left, and the strings and allowed elements
\* outside those subtrees are all there, in the order and nesting they had
C7_AllowListEnforced ==
    pc = "san_once" =>
        /\ \A e \in Range(Elements(article)) : e.name \in allow
        /\ Outline(article) = ExpectedOutline(soup)

\* <div class="widget"><span>X</span></div> has become the text X
C7_Witness ==
    /\ pc = "san_once"
    /\ soup.contents =
           << Tag("div", ("class" :> << "widget" >>), << Tag("span", NoAttrs, << Text(<< "X" >>) >>) >>) >>
    /\ article.contents = << Text(<< "X" >>) >>


(***************************************************************************)
(* Operation: find_banner_url on a document.                               *)
(*                                                                         *)
(* A document is put together from an og:image meta, an element ahead of   *)
(* the banner wrapper, the wrapper, and an element after it.  Each part    *)
(* states the URL it stands for, so the resolver's answer can be compared  *)
(* with the precedence rule.                                               *)
(***************************************************************************)
StyleHero    == << "c", "o", "l", "o", "r", ":", "r", "e", "d", ";", " ", "B", "a", "c", "k", "g", "r", "o", "u", "n", "d", "-", "I", "m", "a", "g", "e", " ", ":", " ", "U", "R", "L", "(", " ", "'", "h", "t", "t", "p", "s", ":", "/", "/", "c", "d", "n", "/", "h", "e", "r", "o", ".", "w", "e", "b", "p", "'", " ", ")" >>
StyleA       == << "b", "a", "c", "k", "g", "r", "o", "u", "n", "d", "-", "i", "m", "a", "g", "e", ":", "u", "r", "l", "(", "\"", "h", "t", "t", "p", "s", ":", "/", "/", "c", "d", "n", "/", "a", ".", "p", "n", "g", "\"", ")" >>
StyleC       == BACKGROUND_IMAGE \o << ":", "\r" >> \o URL_OPEN \o UrlC \o << ")" >>
StyleRel     == << "b", "a", "c", "k", "g", "r", "o", "u", "n", "d", "-", "i", "m", "a", "g", "e", ":", "u", "r", "l", "(", "i", "m", "g", "/", "a", ".", "p", "n", "g", ")" >>
StyleOpen    == << "b", "a", "c", "k", "g", "r", "o", "u", "n", "d", "-", "i", "m", "a", "g", "e", ":", "u", "r", "l", "(", "h", "t", "t", "p", "s", ":", "/", "/", "c", "d", "n", "/", "a", ".", "p", "n", "g" >>
StylePlain   == << "b", "a", "c", "k", "g", "r", "o", "u", "n", "d", ":", "u", "r", "l", "(", "h", "t", "t", "p", "s", ":", "/", "/", "c", "d", "n", "/", "a", ".", "p", "n", "g", ")" >>
WrapperClass == "class" :> << "hero", WRAPPER_BANNER_IMAGE >>

OgOptions ==
    { [ nodes |-> << >>, url |-> None ],
      [ nodes |-> << Tag("meta", ("property" :> OG_IMAGE) @@ ("content" :> << " " >> \o UrlBanner), << >>) >>,
        url   |-> UrlBanner ],
      [ nodes |-> << Tag("meta", ("property" :> OG_IMAGE) @@ ("content" :> RawRel), << >>) >>,
        url   |-> None ] }

\* an element outside the wrapper: whether its style is a background-image url
\* style, and the URL that style gives
BeforeOptions ==
    { [ nodes |-> << >>, styled |-> FALSE, url |-> None ],
      [ nodes |-> << Tag("div", ("style" :> StylePlain), << >>) >>, styled |-> FALSE, url |-> None ],
      [ nodes |-> << Tag("div", ("style" :> StyleA), << >>) >>, styled |-> TRUE, url |-> UrlA ],
      [ nodes |-> << Tag("div", ("style" :> StyleRel), << >>) >>, styled |-> TRUE, url |-> None ],
      [ nodes |-> << Tag("div", ("style" :> StyleOpen), << >>) >>, styled |-> TRUE, url |-> None ] }

AfterOptions ==
    { [ nodes |-> << >>, styled |-> FALSE, url |-> None ],
      [ nodes |-> << Tag("section", ("style" :> StyleC), << >>) >>, styled |-> TRUE, url |-> UrlC ] }

\* the wrapper: the URL of its own background style, whether it carries such a
\* style at all, and the URL of its first descendant img
WrapOptions ==
    { [ nodes |-> << >>, bg |-> None, styled |-> FALSE, img |-> None ],
      [ nodes |-> << Tag("div", WrapperClass @@ ("style" :> StyleHero), << >>) >>,
        bg |-> UrlHero, styled |-> TRUE, img |-> None ],
      [ nodes |-> << Tag("div", WrapperClass @@ ("style" :> StyleHero),
                         << Img(("src" :> UrlJane) @@ ("alt" :> JANE_SMITH)) >>) >>,
        bg |-> UrlHero, styled |-> TRUE, img |-> UrlJane ],
      [ nodes |-> << Tag("div", WrapperClass @@ ("style" :> StyleRel),
                         << Img(("data-src" :> UrlJane) @@ ("alt" :> JANE_SMITH)) >>) >>,
        bg |-> None, styled |-> TRUE, img |-> UrlJane ],
      [ nodes |-> << Tag("div", WrapperClass @@ ("style" :> StyleRel), << >>) >>,
        bg |-> None, styled |-> TRUE, img |-> None ],
      [ nodes |-> << Tag("div", WrapperClass,
                         << Tag("span", NoAttrs, << ImgRel >>), Img("src" :> UrlJane) >>) >>,
        bg |-> None, styled |-> FALSE, img |-> None ],
      [ nodes |-> << Tag("div", WrapperClass,
                         << Tag("p", NoAttrs, << Img("srcset" :> << " ", "h", "t", "t", "p", "s", ":", "/", "/", "c", "d", "n", "/", "j", "a", "n", "e", ".", "j", "p", "g", " ", "1", "x", ",", " ", "h", "t", "t", "p", "s", ":", "/", "/", "c", "d", "n", "/", "a", ".", "p", "n", "g", " ", "2", "x" >>) >>) >>) >>,
        bg |-> None, styled |-> FALSE, img |-> UrlJane ] }

BannerRecipes ==
    [ kind : { "banner_doc" }, og : OgOptions, before : BeforeOptions,
      wrap : WrapOptions, after : AfterOptions ]

BannerDoc(r) == Tag(DocumentName, NoAttrs, r.og.nodes \o r.before.nodes \o r.wrap.nodes \o r.after.nodes)

InitBanner == \E r \in BannerRecipes : Idle("bn_call", r, BannerDoc(r), NoNode, None)

\* find_banner_url(soup)
FindBannerCall ==
    /\ pc = "bn_call"
    /\ pc' = "bn_returned"
    /\ banner_url' = find_banner_url(soup)
    /\ UNCHANGED << request, soup, article, prev, image_url_map, images_list, image_names,
                    title, steps, response >>

NextBanner == FindBannerCall

SpecBanner == InitBanner /\ [][NextBanner]_vars

\* rule 1 of the precedence: the wrapper's own background url, else its first img
WrapperRule(r) == IF r.wrap.bg # None THEN r.wrap.bg ELSE r.wrap.img

\* rule 2: the first element in document order that carries a background-image url style
FirstStyledRule(r) ==
    IF r.before.styled THEN r.before.url
    ELSE IF r.wrap.styled THEN r.wrap.bg
    ELSE IF r.after.styled THEN r.after.url
    ELSE None

\* C4: the banner is the wrapper's background url, else the wrapper's first img, else
\* the url of the first element styled with a background-image url, else og:image,
\* else none; og:image is the answer only when no earlier rule gave a URL
C4_BannerPrecedence ==
    pc = "bn_returned" =>
        /\ banner_url =
               IF WrapperRule(request) # None THEN WrapperRule(request)
               ELSE IF FirstStyledRule(request) # None THEN FirstStyledRule(request)
               ELSE request.og.url
        /\ (request.wrap.bg # None /\ request.og.url # None) => banner_url = request.wrap.bg
        /\ banner_url = UrlBanner =>
               WrapperRule(request) = None /\ FirstStyledRule(request) = None

C4_Witness ==
    /\ pc = "bn_returned"
    /\ request.wrap.bg = UrlHero
    /\ request.og.url = UrlBanner
    /\ request.before.url = UrlA
    /\ banner_url = UrlHero


(***************************************************************************)
(* The /scrape-blog handler: requests, pages and the steps of scrape_blog. *)
(***************************************************************************)
MaxBlocks == 2

HELLO == << "H", "e", "l", "l", "o" >>

TitleTag == Tag("title", NoAttrs, << Text(<< " " >> \o HELLO \o << "\r", "\n" >>) >>)
H1Tag    == Tag("h1", ("class" :> << "entry-title" >>), << Text(HELLO) >>)
OgTag    == Tag("meta", ("property" :> OG_IMAGE) @@ ("content" :> UrlBanner), << >>)

ImgPRA   == Img("src" :> RawPRA)
ImgJane  == Img(("src" :> UrlJane) @@ ("alt" :> JANE_SMITH))

\* the blocks an article body is made of
PageBlocks ==
    { Tag("p", NoAttrs, << Text(<< "T", "e", "x", "t" >>) >>),
      ImgPRA,
      ImgJane,
      Tag("div", ("class" :> << "widget" >>), << Tag("span", NoAttrs, << Text(<< "X" >>) >>) >>),
      Tag("script", NoAttrs, << Text(<< "s" >>) >>),
      Tag("div", ("class" :> << WRAPPER_BANNER_IMAGE >>), << ImgJane >>),
      Img(("src" :> UrlJane) @@ ("alt" :> JANE_SMITH) @@ ("style" :> << "b", "a", "c", "k", "g", "r", "o", "u", "n", "d", "-", "i", "m", "a", "g", "e", ":", "u", "r", "l", "(", "h", "t", "t", "p", "s", ":", "/", "/", "c", "d", "n", "/", "j", "a", "n", "e", ".", "j", "p", "g", ")" >>)) }

RootKinds == { "article", "div", "body", "document" }

\* where the page's h1 is: nowhere, first or last in the article root, in the body
\* ahead of the root, or around the root
H1Places(root) ==
    { "none", "first", "last" }
    \cup (IF root \in { "article", "div" } THEN { "outside", "around" } ELSE { })

PageRecipes ==
    { [ title |-> t, og |-> o, root |-> r, h1 |-> h, blocks |-> b ] :
        t \in BOOLEAN, o \in BOOLEAN, r \in RootKinds,
        h \in { "none", "first", "last", "outside", "around" },
        b \in SeqsUpTo(PageBlocks, MaxBlocks) }

ValidPage(r) == r.h1 \in H1Places(r.root)

\* the page a failing fetch answers with
ErrorPage == [ title |-> TRUE, og |-> FALSE, root |-> "body", h1 |-> "none", blocks |-> << >> ]

\* BeautifulSoup(resp.text, "html.parser") for the page of a recipe
BuildPage(r) ==
    LET head  == (IF r.title THEN << TitleTag >> ELSE << >>) \o (IF r.og THEN << OgTag >> ELSE << >>)
        inner == (IF r.h1 = "first" THEN << H1Tag >> ELSE << >>) \o r.blocks
                 \o (IF r.h1 = "last" THEN << H1Tag >> ELSE << >>)
        out   == IF r.h1 = "outside" THEN << H1Tag >> ELSE << >>
        root  == IF r.root = "article" THEN Tag("article", NoAttrs, inner)
                 ELSE Tag("div", ("class" :> << "post", "content" >>), inner)
        held  == IF r.h1 = "around" THEN [ H1Tag EXCEPT !.contents = @ \o << root >> ] ELSE root
    IN  CASE r.root \in { "article", "div" } ->
               Tag(DocumentName, NoAttrs, head \o << Tag("body", NoAttrs, out \o << held >>) >>)
          [] r.root = "body" -> Tag(DocumentName, NoAttrs, head \o << Tag("body", NoAttrs, inner) >>)
          [] OTHER -> Tag(DocumentName, NoAttrs, head \o inner)

Requests ==
    { [ kind |-> "scrape", body |-> b, fetch |-> "none", page |-> ErrorPage ] :
        b \in { "not_json", "json_array", "no_url", "empty_url" } }
    \cup { [ kind |-> "scrape", body |-> "url", fetch |-> f, page |-> ErrorPage ] :
             f \in { "timeout", "http_404", "http_500" } }
    \cup { [ kind |-> "scrape", body |-> "url", fetch |-> "ok", page |-> r ] :
             r \in { q \in PageRecipes : ValidPage(q) } }

Init == \E req \in Requests : Idle("sb_request", req, NoNode, NoNode, None)

TextResponse(status) == [ status |-> status, body |-> [ text |-> "text" ] ]

\* lines 339-341: any exception becomes a 500
Fault == TextResponse(500)

Step(name) == steps' = Append(steps, name)

\* lines 302-305
ReadRequest ==
    /\ pc = "sb_request"
    /\ Step("read_request")
    /\ IF request.body \in { "not_json", "json_array" }
       THEN pc' = "sb_done" /\ response' = Fault
       ELSE IF request.body \in { "no_url", "empty_url" }
       THEN pc' = "sb_done" /\ response' = TextResponse(400)
       ELSE pc' = "sb_fetch" /\ UNCHANGED response
    /\ UNCHANGED << request, soup, article, prev, banner_url, image_url_map, images_list,
                    image_names, title >>

\* lines 307-308: requests.get with a timeout, then raise_for_status
Fetch ==
    /\ pc = "sb_fetch"
    /\ Step("fetch")
    /\ IF request.fetch # "ok"
       THEN pc' = "sb_done" /\ response' = Fault
       ELSE pc' = "sb_parse" /\ UNCHANGED response
    /\ UNCHANGED << request, soup, article, prev, banner_url, image_url_map, images_list,
                    image_names, title >>

\* lines 310-319
ParseTitle ==
    /\ pc = "sb_parse"
    /\ Step("parse")
    /\ \E doc \in { BuildPage(request.page) } :
           /\ soup' = doc
           /\ title' = ResolveTitle(doc)
    /\ pc' = "sb_locate"
    /\ UNCHANGED << request, article, prev, banner_url, image_url_map, images_list,
                    image_names, response >>

\* lines 267-279
LocateArticle ==
    /\ pc = "sb_locate"
    /\ Step("locate")
    /\ article' = NodeAt(soup, ArticlePath(soup))
    /\ pc' = "sb_banner"
    /\ UNCHANGED << request, soup, prev, banner_url, image_url_map, images_list,
                    image_names, title, response >>

\* line 282
ResolveBanner ==
    /\ pc = "sb_banner"
    /\ Step("banner")
    /\ banner_url' = find_banner_url(soup)
    /\ pc' = "sb_h1"
    /\ UNCHANGED << request, soup, article, prev, image_url_map, images_list,
                    image_names, title, response >>

\* lines 285-286
PrependH1Step ==
    /\ pc = "sb_h1"
    /\ Step("h1")
    /\ \E moved \in { PrependH1(soup) } :
           /\ article' = moved
           /\ pc' = IF moved = CyclicTree THEN "sb_walk_h1" ELSE "sb_clean"
    /\ UNCHANGED << request, soup, prev, banner_url, image_url_map, images_list,
                    image_names, title, response >>

\* line 134 on the cyclic tree: article([...]) walks the root's descendants by
\* next_element, from its first child h1 on to the root and from the root to h1
\* again, and never meets the element it is to stop at (for an empty root, line 286:
\* insert looks for a next sibling from parent to parent, root to h1 to root)
WalkCycle ==
    /\ pc \in { "sb_walk_h1", "sb_walk_root" }
    /\ pc' = IF pc = "sb_walk_h1" THEN "sb_walk_root" ELSE "sb_walk_h1"
    /\ UNCHANGED << request, soup, article, prev, banner_url, image_url_map, images_list,
                    image_names, title, steps, response >>

\* line 289
CleanStep ==
    /\ pc = "sb_clean"
    /\ Step("clean")
    /\ prev' = article
    /\ article' = clean_article(article)
    /\ pc' = "sb_assign"
    /\ UNCHANGED << request, soup, banner_url, image_url_map, images_list,
                    image_names, title, response >>

\* line 292; an exception of apply_placeholders is caught at line 339
AssignStep ==
    /\ pc = "sb_assign"
    /\ Step("assign")
    /\ \E r \in { apply_placeholders(article, banner_url) } :
           IF r.raised
           THEN /\ pc' = "sb_done"
                /\ response' = Fault
                /\ UNCHANGED << article, image_url_map, images_list, image_names >>
           ELSE /\ pc' = "sb_respond"
                /\ article' = r.soup
                /\ image_url_map' = r.image_url_map
                /\ images_list' = r.images_list
                /\ image_names' = r.image_names
                /\ UNCHANGED response
    /\ UNCHANGED << request, soup, prev, banner_url, title >>

\* bool(tag): a Tag is true whatever it holds (Tag.__bool__); only None is false
TagBool(n) == n # NoNode

\* the children of a document whose markup has been stripped on the left: a text in
\* front loses its leading whitespace, and goes when nothing of it is left; the
\* markup of an element begins with "<"
RECURSIVE LStripNodes(_)
LStripNodes(kids) ==
    IF kids = << >> \/ Head(kids).name # "#text" THEN kids
    ELSE Value({ IF t = << >> THEN LStripNodes(Tail(kids)) ELSE << Text(t) >> \o Tail(kids) :
                 t \in { LStripChars(Head(kids).text, Whitespace) } })

\* the same on the right; the markup of an element ends with ">"
RECURSIVE RStripNodes(_)
RStripNodes(kids) ==
    IF kids = << >> \/ kids[Len(kids)].name # "#text" THEN kids
    ELSE Value({ IF t = << >> THEN RStripNodes(SubSeq(kids, 1, Len(kids) - 1))
                 ELSE SubSeq(kids, 1, Len(kids) - 1) \o << Text(t) >> :
                 t \in { RStripChars(kids[Len(kids)].text, Whitespace) } })

\* line 326: str(article).strip(), as the tree whose markup the stripped string is.
\* The markup of a Tag root is its own element and strip changes nothing; the markup
\* of the document is that of its children in a row
StrStripped(root) ==
    IF root.name = DocumentName THEN [ root EXCEPT !.contents = RStripNodes(LStripNodes(@)) ]
    ELSE root

\* lines 322-337; content_html is held as the tree of which the answered string is
\* the markup
Respond ==
    /\ pc = "sb_respond"
    /\ Step("respond")
    /\ pc' = "sb_done"
    /\ response' =
           IF ~TagBool(article) THEN TextResponse(422)
           ELSE [ status |-> 200,
                  body   |-> [ title         |-> title,
                               content_html  |-> StrStripped(article),
                               images        |-> images_list,
                               image_names   |-> image_names,
                               image_url_map |-> image_url_map ] ]
    /\ UNCHANGED << request, soup, article, prev, banner_url, image_url_map, images_list,
                    image_names, title >>

Next ==
    \/ ReadRequest
    \/ Fetch
    \/ ParseTitle
    \/ LocateArticle
    \/ ResolveBanner
    \/ PrependH1Step
    \/ WalkCycle
    \/ CleanStep
    \/ AssignStep
    \/ Respond

Spec == Init /\ [][Next]_vars

\* the positions of the handler
Positions ==
    { "sb_request", "sb_fetch", "sb_parse", "sb_locate", "sb_banner", "sb_h1", "sb_walk_h1",
      "sb_walk_root", "sb_clean", "sb_assign", "sb_respond", "sb_done" }

\* the handler goes on: a step of a handler that has not returned takes it to
\* another position (every step of Next is one)
Moves == pc # "sb_done" /\ pc' \in Positions \ { pc }

\* Flask runs the handler of a request until it returns: a handler that has not
\* returned goes on
FairSpec == Spec /\ WF_pc(Moves)


(***************************************************************************)
(* Properties of scrape_blog.                                              *)
(***************************************************************************)
Done == pc = "sb_done"

Answered(status) == Done /\ response.status = status

Fetched == request.body = "url" /\ request.fetch = "ok"

AllSteps ==
    << "read_request", "fetch", "parse", "locate", "banner", "h1", "clean", "assign", "respond" >>

ResultFields == { "title", "content_html", "images", "image_names", "image_url_map" }

\* the end-to-end page: <title>Hello</title>, og:image https://cdn/banner.jpg, and an
\* article holding <h1>Hello</h1><p>Text</p><img src="//cdn/a.jpg">
ScenarioPage ==
    [ title |-> TRUE, og |-> TRUE, root |-> "article", h1 |-> "first",
      blocks |-> << Tag("p", NoAttrs, << Text(<< "T", "e", "x", "t" >>) >>), ImgPRA >> ]

IsNoise(img) == Get(img.attrs, "alt") = JANE_SMITH

\* the imgs of the article root, as located and before sanitizing, that resolve to
\* an absolute URL and are no noise
ContentImgs ==
    SelectSeq(FindAllNamed(prev, "img"), LAMBDA g : ~IsNoise(g) /\ _get_img_src(g) # None)

\* some img of the answered content_html points at the placeholder of url
PlaceheldIn(content, names, url_map, url) ==
    \E n \in Range(names) :
        /\ url_map[n] = url
        /\ \E g \in Range(FindAllNamed(content, "img")) : Get(g.attrs, "src") = IMAGES_DIR \o n

\* C3: when a fetched page has been answered, every img of the article root that
\* resolves to an absolute URL has its URL in images and is in content_html with its
\* placeholder src; the end-to-end page answers images = [banner, a.jpg] and
\* image_names = [image1.jpg, image2.jpg]
C3_ImagesSurviveExtraction ==
    /\ Answered(200) =>
           \A g \in Range(ContentImgs) :
               /\ _get_img_src(g) \in Range(response.body.images)
               /\ PlaceheldIn(response.body.content_html, response.body.image_names,
                              response.body.image_url_map, _get_img_src(g))
    /\ (Done /\ Fetched /\ request.page = ScenarioPage) =>
               /\ response.status = 200
               /\ response.body.images = << UrlBanner, UrlPRA >>
               /\ [ i \in 1..2 |-> Str(response.body.image_names[i]) ]
                      = << "image1.jpg", "image2.jpg" >>

\* C5: in a successful answer for a page whose article holds an img with alt
\* "Jane Smith", that img is not in content_html and its URL is not in images nor
\* among the values of image_url_map, and takes no name
C5_NoiseFiltered ==
    (Answered(200) /\ \E g \in Range(FindAllNamed(prev, "img")) : IsNoise(g)) =>
        /\ UrlJane \notin Range(response.body.images)
        /\ \A n \in DOMAIN response.body.image_url_map : response.body.image_url_map[n] # UrlJane
        /\ Len(response.body.image_names) = Len(response.body.images)
        /\ \A g \in Range(FindAllNamed(response.body.content_html, "img")) : ~IsNoise(g)

\* the block a banner named fname opens content_html with
IsBannerBlock(node, fname) ==
    /\ node.name = "p"
    /\ Len(node.contents) = 1
    /\ node.contents[1].name = "figure"
    /\ Len(node.contents[1].contents) = 1
    /\ node.contents[1].contents[1].name = "img"
    /\ Get(node.contents[1].contents[1].attrs, "src") = IMAGES_DIR \o fname

\* C8: when a page with a resolved banner has been answered, the answer is a success,
\* the banner is image1.<ext> and first in images, its figure block is the first
\* child of content_html, and the prepended h1 is the second
C8_BannerFirst ==
    (Done /\ Fetched /\ banner_url # None) =>
        /\ response.status = 200
        /\ response.body.images # << >>
        /\ response.body.images[1] = banner_url
        /\ Str(response.body.image_names[1]) = PlaceholderName(1, banner_url)
        /\ Len(response.body.content_html.contents) >= 1
        /\ IsBannerBlock(response.body.content_html.contents[1], response.body.image_names[1])
        /\ request.page.h1 # "none" =>
               /\ Len(response.body.content_html.contents) >= 2
               /\ response.body.content_html.contents[2].name = "h1"

\* every answer is one of the terminal outcomes: a response exists exactly when the
\* request is over, no step runs twice, a missing or empty url is a 400 with no
\* fetch made, an unreadable body is a 500, a failed fetch is a 500 with nothing run
\* after the fetch, and content_html is in the response exactly when it is a
\* success, which carries the five fields and nothing else
Outcomes ==
    /\ (response # NoResponse) <=> Done
    /\ NoRepeats(steps)
    /\ Done =>
        /\ response.status \in { 200, 400, 422, 500 }
        /\ request.body \in { "no_url", "empty_url" } =>
               response.status = 400 /\ steps = << "read_request" >>
        /\ request.body \in { "not_json", "json_array" } =>
               response.status = 500 /\ steps = << "read_request" >>
        /\ (request.body = "url" /\ request.fetch # "ok") =>
               response.status = 500 /\ steps = << "read_request", "fetch" >>
        /\ ("content_html" \in DOMAIN response.body) <=> (response.status = 200)
        /\ response.status = 200 => (DOMAIN response.body = ResultFields /\ steps = AllSteps)
        /\ response.status # 200 => DOMAIN response.body = { "text" }

\* C9: every request ends, and it ends in exactly one terminal outcome: the handler
\* comes to return a response, and whenever a response exists it is a 400 for a
\* missing url with no fetch made, a 500 for a fault or a failed fetch with nothing
\* run after it, or the success that alone carries content_html and with it all
\* five fields
C9_TerminalOutcomes == []Outcomes /\ <>Done

=============================================================================
